---- MODULE Spec2Model ----
(***************************************************************************)
(* Model of generate_sku_flow_report.py: four loaders, four group-and-sum  *)
(* aggregators, the outer-join report builder and the driver that sorts    *)
(* and writes the report.  A run is one sequential pass; an exception      *)
(* raised by any step ends the run (pc = "aborted").                       *)
(*                                                                         *)
(* A cell is NA (pandas NaN / <NA>) or a one-element tuple <<n>>.  A data  *)
(* frame is [columns |-> sequence of column names, rows |-> sequence of    *)
(* functions from the column names to cells].  SKUs are opaque ordered     *)
(* values; integers stand for them.                                        *)
(***************************************************************************)
EXTENDS Integers, Sequences, FiniteSets, TLC

\* ---------------------------------------------------------------- bounds
MaxSku == 2
MaxQty == 1
MaxRows == 2
MaxFaultRows == 1

\* --------------------------------------------------------- configuration
INBOUND_ORDER_SHEET == "inboundOrderLine"
PRODUCTION_CONSOLIDATED_CSV == "Production_Consolidated.csv"
SHEET_DK == "Aug25 Prod Order-DK"
SHEET_DE == "Aug25 Prod Order - DE"
INBOUND_FROM_PROD_SHEETS == <<SHEET_DK, SHEET_DE>>
SHIPMENTS_CONSOLIDATED_CSV == "Shipments_Consolidated.csv"

COL_SKU_INBOUND == "Varenummer"
\* The source spells this name with non-ASCII characters; only its identity
\* matters here.
COL_QTY_RECEIVED == "Maengde modtaget"
COL_SKU_PROD == "ItemNumber"
COL_QTY_PRODUCED == "QuantityProduced"
COL_QTY_PACKED_INBOUND == "QuantityPacked"
COL_QTY_PACKED_SHIP == "QuantityPacked"

\* The tables the run reads (a sheet of a workbook, or a csv file).
Tables ==
    {INBOUND_ORDER_SHEET, PRODUCTION_CONSOLIDATED_CSV, SHEET_DK, SHEET_DE,
     SHIPMENTS_CONSOLIDATED_CSV}

\* The key and the quantity column each table is expected to carry.
KeyCol(t) == IF t = INBOUND_ORDER_SHEET THEN COL_SKU_INBOUND ELSE COL_SKU_PROD

QtyCol(t) ==
    CASE t = INBOUND_ORDER_SHEET -> COL_QTY_RECEIVED
      [] t = PRODUCTION_CONSOLIDATED_CSV -> COL_QTY_PRODUCED
      [] t = SHIPMENTS_CONSOLIDATED_CSV -> COL_QTY_PACKED_SHIP
      [] OTHER -> COL_QTY_PACKED_INBOUND

MetricCols == <<"Goods In", "Moved to Production", "Inbound from Production", "Shipments Out">>

\* ------------------------------------------------------------------ cells
NA == <<>>
IsNA(c) == c = NA
Num(n) == <<n>>
Val(c) == c[1]

SkuCells == {NA} \cup {Num(s) : s \in 1..MaxSku}
QtyCells == {NA} \cup {Num(q) : q \in 1..MaxQty}

\* ------------------------------------------------------------ environment
\* What is wrong with the input files of a run: nothing, one table that
\* cannot be read, or one table that lacks its key or its quantity column.
NoFault == [kind |-> "none", table |-> "-"]
Faults ==
    {NoFault} \cup
    [kind : {"unreadable", "no_key_column", "no_qty_column"}, table : Tables]

FileRow == [table : Tables, sku : SkuCells, qty : QtyCells]

\* Every listing of at most n rows, each tagged with the table it is in.
TaggedRows(n) == UNION {[1..k -> FileRow] : k \in 0..n}

RECURSIVE RowsOf(_, _)
RowsOf(tagged, t) ==
    IF tagged = <<>> THEN <<>>
    ELSE LET h == Head(tagged) IN
         (IF h.table = t THEN <<[sku |-> h.sku, qty |-> h.qty]>> ELSE <<>>)
            \o RowsOf(Tail(tagged), t)

VARIABLES
    files,                \* table name -> rows (sku, qty) stored in the file
    fault,                \* the defect of the input files, if any
    pc,                   \* the step the run is at
    inbound_order_df,     \* build_report's locals
    production_df,
    inbound_from_prod_df,
    shipments_df,
    goods_in,
    moved_to_prod,
    inbound_from_prod,
    shipments_out,
    report,               \* the report frame (build_report, then main)
    output_csv,           \* contents of SKU_Flow_Report.csv
    written               \* whether SKU_Flow_Report.csv was written

vars ==
    <<files, fault, pc, inbound_order_df, production_df, inbound_from_prod_df,
      shipments_df, goods_in, moved_to_prod, inbound_from_prod, shipments_out,
      report, output_csv, written>>

\* ------------------------------------------------------------ data frames
EmptyFrame == [columns |-> <<>>, rows |-> <<>>]

Range(s) == {s[i] : i \in 1..Len(s)}
HasCol(df, c) == c \in Range(df.columns)

RECURSIVE SeqSum(_)
SeqSum(s) == IF s = <<>> THEN 0 ELSE Head(s) + SeqSum(Tail(s))

RECURSIVE Filter(_, _)
Filter(s, keep) ==
    IF s = <<>> THEN <<>>
    ELSE (IF Head(s) \in keep THEN <<Head(s)>> ELSE <<>>) \o Filter(Tail(s), keep)

\* Readable with the read error swallowed (an unreadable table read as empty).
ReadableAlways(t) == TRUE

\* pd.read_excel / pd.read_csv succeed on table t.
Readable(t) == ~(fault.kind = "unreadable" /\ fault.table = t)

\* The columns table t has in its file, in file order.
FileColumns(t) ==
    (IF fault.kind = "no_key_column" /\ fault.table = t THEN <<>> ELSE <<KeyCol(t)>>)
    \o <<"Description">> \o
    (IF fault.kind = "no_qty_column" /\ fault.table = t THEN <<>> ELSE <<QtyCol(t)>>)

\* The frame pd.read_excel / pd.read_csv return for table t.
ReadTable(t) ==
    LET cols == FileColumns(t)
        cell(r, c) == IF c = KeyCol(t) THEN r.sku ELSE IF c = QtyCol(t) THEN r.qty ELSE NA
    IN [columns |-> cols,
        rows |-> [i \in 1..Len(files[t]) |-> [c \in Range(cols) |-> cell(files[t][i], c)]]]

\* needed = [c for c in df.columns if c in {...}]; df = df[needed].copy()
Project(df, wanted) ==
    LET needed == Filter(df.columns, wanted)
    IN [columns |-> needed,
        rows |-> [i \in 1..Len(df.rows) |-> [c \in Range(needed) |-> df.rows[i][c]]]]

\* Concat followed by drop_duplicates(): a row of b equal to a row of a is lost.
ConcatDistinct(a, b) ==
    LET cols == a.columns \o Filter(b.columns, Range(b.columns) \ Range(a.columns))
        widen(r) == [c \in Range(cols) |-> IF c \in DOMAIN r THEN r[c] ELSE NA]
        arows == [i \in 1..Len(a.rows) |-> widen(a.rows[i])]
        brows == [i \in 1..Len(b.rows) |-> widen(b.rows[i])]
    IN [columns |-> cols,
        rows |-> arows \o Filter(brows, Range(brows) \ Range(arows))]

\* pd.concat([a, b], ignore_index=True): union of the columns, all rows of a
\* then all rows of b, NA where a frame lacks a column.
Concat(a, b) ==
    LET cols == a.columns \o Filter(b.columns, Range(b.columns) \ Range(a.columns))
        widen(r) == [c \in Range(cols) |-> IF c \in DOMAIN r THEN r[c] ELSE NA]
    IN [columns |-> cols,
        rows |-> [i \in 1..Len(a.rows) |-> widen(a.rows[i])]
                 \o [i \in 1..Len(b.rows) |-> widen(b.rows[i])]]

\* Order of cells: ascending, NA last (groupby sort=True, sort_values
\* na_position="last").
Leq(a, b) == IsNA(b) \/ (~IsNA(a) /\ Val(a) <= Val(b))

RECURSIVE SortCells(_)
SortCells(K) ==
    IF K = {} THEN <<>>
    ELSE LET m == CHOOSE x \in K : \A y \in K : Leq(x, y)
         IN <<m>> \o SortCells(K \ {m})

\* The group keys groupby(key, dropna=False) forms: every key value seen,
\* NA included.
GroupKeys(df, key) == {df.rows[i][key] : i \in 1..Len(df.rows)}

\* .sum() of one group: NA quantities are skipped, an all-NA group sums to 0.
GroupSum(df, key, col, k) ==
    LET addend(r) == IF r[key] = k /\ ~IsNA(r[col]) THEN Val(r[col]) ELSE 0
    IN SeqSum([i \in 1..Len(df.rows) |-> addend(df.rows[i])])

\* df.groupby(key, dropna=False)[col].sum().reset_index().rename(...)
GroupBySum(df, key, col, metric) ==
    LET ks == SortCells(GroupKeys(df, key))
    IN [columns |-> <<"SKU", metric>>,
        rows |-> [i \in 1..Len(ks) |->
                    ("SKU" :> ks[i]) @@ (metric :> Num(GroupSum(df, key, col, ks[i])))]]

\* CanGroup of an aggregator that also rejects a frame without rows.
CanGroupNonEmpty(df, key, col) == HasCol(df, key) /\ HasCol(df, col) /\ df.rows # <<>>

\* groupby(key)[col] raises KeyError when the frame lacks key or col.
CanGroup(df, key, col) == HasCol(df, key) /\ HasCol(df, col)

\* ------------------------------------------------------------------ merge
\* KeysMatch with SQL semantics: a missing key matches nothing.
KeysMatchSql(a, b) == a = b /\ ~IsNA(a)

\* Whether two join keys are the same key.  pandas matches NA keys with each
\* other (unlike SQL).
KeysMatch(a, b) == a = b

RECURSIVE Flatten(_)
Flatten(ss) == IF ss = <<>> THEN <<>> ELSE Head(ss) \o Flatten(Tail(ss))

RECURSIVE SelectRows(_, _, _)
\* The rows of s whose SKU matches (want = TRUE) or does not match
\* (want = FALSE) some key in ks.
SelectRows(s, ks, want) ==
    IF s = <<>> THEN <<>>
    ELSE LET hit == \E k \in ks : KeysMatch(Head(s)["SKU"], k)
         IN (IF hit = want THEN <<Head(s)>> ELSE <<>>) \o SelectRows(Tail(s), ks, want)

\* Stable insertion of row r after every row whose SKU is <= r's SKU.
RECURSIVE InsertRow(_, _)
InsertRow(r, s) ==
    IF s = <<>> THEN <<r>>
    ELSE IF Leq(Head(s)["SKU"], r["SKU"]) THEN <<Head(s)>> \o InsertRow(r, Tail(s))
    ELSE <<r>> \o s

\* SortValues left out: the rows stay as they are.
SortValuesNone(rows) == rows

\* rows.sort_values(by=["SKU"], kind="stable"): ascending, NA last, ties in
\* their original order.
RECURSIVE SortValues(_)
SortValues(rows) ==
    IF rows = <<>> THEN <<>>
    ELSE InsertRow(rows[Len(rows)], SortValues(SubSeq(rows, 1, Len(rows) - 1)))

\* OuterMerge with how="left": the right rows without a left partner are lost.
LeftMerge(left, right, lexicographic) ==
    LET rcols == Filter(right.columns, Range(right.columns) \ {"SKU"})
        cols == left.columns \o rcols
        pad(r) == [c \in Range(cols) |-> IF c \in DOMAIN r THEN r[c] ELSE NA]
        partners(l) == SelectRows(right.rows, {l["SKU"]}, TRUE)
        joined(l) ==
            IF partners(l) = <<>> THEN <<pad(l)>>
            ELSE [j \in 1..Len(partners(l)) |-> pad(l @@ partners(l)[j])]
        rows == Flatten([i \in 1..Len(left.rows) |-> joined(left.rows[i])])
    IN [columns |-> cols,
        rows |-> IF lexicographic THEN SortValues(rows) ELSE rows]

\* left.merge(right, on="SKU", how="outer").  Every left row is paired with
\* each right row of the same key, or padded with NA when there is none; the
\* right rows without a left partner follow, padded with NA.  The order of the
\* result depends on the pandas release: the rows in order of appearance
\* (lexicographic = FALSE) or sorted by key (lexicographic = TRUE).
OuterMerge(left, right, lexicographic) ==
    LET rcols == Filter(right.columns, Range(right.columns) \ {"SKU"})
        cols == left.columns \o rcols
        pad(r) == [c \in Range(cols) |-> IF c \in DOMAIN r THEN r[c] ELSE NA]
        partners(l) == SelectRows(right.rows, {l["SKU"]}, TRUE)
        joined(l) ==
            IF partners(l) = <<>> THEN <<pad(l)>>
            ELSE [j \in 1..Len(partners(l)) |-> pad(l @@ partners(l)[j])]
        leftPart == Flatten([i \in 1..Len(left.rows) |-> joined(left.rows[i])])
        leftKeys == {left.rows[i]["SKU"] : i \in 1..Len(left.rows)}
        rightOnly == SelectRows(right.rows, leftKeys, FALSE)
        rightPart == [j \in 1..Len(rightOnly) |-> pad(rightOnly[j])]
        rows == leftPart \o rightPart
    IN [columns |-> cols,
        rows |-> IF lexicographic THEN SortValues(rows) ELSE rows]

\* goods_in.merge(moved_to_prod).merge(inbound_from_prod).merge(shipments_out)
MergeChain(lexicographic) ==
    OuterMerge(
        OuterMerge(OuterMerge(goods_in, moved_to_prod, lexicographic),
                   inbound_from_prod, lexicographic),
        shipments_out, lexicographic)

\* --------------------------------------------------------- derived columns
\* Series arithmetic: NA in either operand gives NA.
CellAdd(a, b) == IF IsNA(a) \/ IsNA(b) THEN NA ELSE Num(Val(a) + Val(b))
CellSub(a, b) == IF IsNA(a) \/ IsNA(b) THEN NA ELSE Num(Val(a) - Val(b))

\* FillCell without the fill.
FillCellSkip(c) == c

\* report[col] = report[col].fillna(0)
FillCell(c) == IF IsNA(c) THEN Num(0) ELSE c

\* for col in [...]: if col in report.columns: report[col] = report[col].fillna(0)
FillNa(df) ==
    LET fill(r) ==
            [c \in DOMAIN r |->
                IF c \in Range(MetricCols) /\ HasCol(df, c) THEN FillCell(r[c]) ELSE r[c]]
    IN [columns |-> df.columns,
        rows |-> [i \in 1..Len(df.rows) |-> fill(df.rows[i])]]

\* report[name] = values: a new column goes last, an existing one is replaced;
\* values holds one cell per row.
SetColumn(df, name, values) ==
    [columns |-> IF HasCol(df, name) THEN df.columns ELSE Append(df.columns, name),
     rows |-> [i \in 1..Len(df.rows) |-> (name :> values[i]) @@ df.rows[i]]]

\* InProduction with the operands the other way round.
InProductionSwapped(r) == CellSub(r["Inbound from Production"], r["Moved to Production"])

InProduction(r) == CellSub(r["Moved to Production"], r["Inbound from Production"])

\* InventoryUltimo with the quantity moved to production taken off as well.
InventoryUltimoNet(r) ==
    CellSub(CellSub(CellAdd(r["Goods In"], r["Inbound from Production"]),
                    r["Shipments Out"]),
            r["Moved to Production"])

InventoryUltimo(r) ==
    CellSub(CellAdd(r["Goods In"], r["Inbound from Production"]), r["Shipments Out"])

SerialNo(r) == NA
Variance(r) == Num(0)

desired_cols ==
    <<"SKU", "Goods In", "Moved to Production", "In Production",
      "Inbound from Production", "Shipments Out", "Serial no.",
      "Variance", "Inventory ULTIMO">>

\* The four assignments of derived columns, then report[existing_cols].
Derive(df) ==
    LET a == SetColumn(df, "In Production",
                       [i \in 1..Len(df.rows) |-> InProduction(df.rows[i])])
        b == SetColumn(a, "Serial no.", [i \in 1..Len(a.rows) |-> SerialNo(a.rows[i])])
        c == SetColumn(b, "Inventory ULTIMO",
                       [i \in 1..Len(b.rows) |-> InventoryUltimo(b.rows[i])])
        d == SetColumn(c, "Variance", [i \in 1..Len(c.rows) |-> Variance(c.rows[i])])
        existing_cols == Filter(desired_cols, Range(d.columns))
    IN [columns |-> existing_cols,
        rows |-> [i \in 1..Len(d.rows) |-> [k \in Range(existing_cols) |-> d.rows[i][k]]]]

\* report["Moved to Production"] etc. raise KeyError on a frame without them.
CanDerive(df) ==
    \A c \in Range(MetricCols) : HasCol(df, c)

\* ---------------------------------------------------------------- the run
Init ==
    /\ \E f \in Faults :
         \E tagged \in TaggedRows(IF f = NoFault THEN MaxRows ELSE MaxFaultRows) :
            /\ fault = f
            /\ files = [t \in Tables |-> RowsOf(tagged, t)]
    /\ pc = "load_inbound_order"
    /\ inbound_order_df = EmptyFrame
    /\ production_df = EmptyFrame
    /\ inbound_from_prod_df = EmptyFrame
    /\ shipments_df = EmptyFrame
    /\ goods_in = EmptyFrame
    /\ moved_to_prod = EmptyFrame
    /\ inbound_from_prod = EmptyFrame
    /\ shipments_out = EmptyFrame
    /\ report = EmptyFrame
    /\ output_csv = EmptyFrame
    /\ written = FALSE

\* An unhandled exception: the run stops where it is, nothing else changes.
Raise ==
    /\ pc' = "aborted"
    /\ UNCHANGED <<files, fault, inbound_order_df, production_df, inbound_from_prod_df,
                   shipments_df, goods_in, moved_to_prod, inbound_from_prod,
                   shipments_out, report, output_csv, written>>

load_inbound_order ==
    /\ pc = "load_inbound_order"
    /\ IF Readable(INBOUND_ORDER_SHEET)
       THEN /\ inbound_order_df' =
                 Project(ReadTable(INBOUND_ORDER_SHEET), {COL_SKU_INBOUND, COL_QTY_RECEIVED})
            /\ pc' = "load_production_consolidated"
            /\ UNCHANGED <<files, fault, production_df, inbound_from_prod_df, shipments_df,
                           goods_in, moved_to_prod, inbound_from_prod, shipments_out,
                           report, output_csv, written>>
       ELSE Raise

load_production_consolidated ==
    /\ pc = "load_production_consolidated"
    /\ IF Readable(PRODUCTION_CONSOLIDATED_CSV)
       THEN /\ production_df' =
                 Project(ReadTable(PRODUCTION_CONSOLIDATED_CSV), {COL_SKU_PROD, COL_QTY_PRODUCED})
            /\ pc' = "load_inbound_from_production"
            /\ UNCHANGED <<files, fault, inbound_order_df, inbound_from_prod_df, shipments_df,
                           goods_in, moved_to_prod, inbound_from_prod, shipments_out,
                           report, output_csv, written>>
       ELSE Raise

\* frames of the sheets read so far, concatenated (pd.concat after the loop).
RECURSIVE ConcatSheets(_)
ConcatSheets(sheets) ==
    IF sheets = <<>> THEN [columns |-> <<COL_SKU_PROD, COL_QTY_PACKED_INBOUND>>, rows |-> <<>>]
    ELSE LET n == Len(sheets)
             last == Project(ReadTable(sheets[n]), {COL_SKU_PROD, COL_QTY_PACKED_INBOUND})
         IN IF n = 1 THEN last
            ELSE Concat(ConcatSheets(SubSeq(sheets, 1, n - 1)), last)

load_inbound_from_production ==
    /\ pc = "load_inbound_from_production"
    /\ IF \A i \in 1..Len(INBOUND_FROM_PROD_SHEETS) : Readable(INBOUND_FROM_PROD_SHEETS[i])
       THEN /\ inbound_from_prod_df' = ConcatSheets(INBOUND_FROM_PROD_SHEETS)
            /\ pc' = "load_shipments_consolidated"
            /\ UNCHANGED <<files, fault, inbound_order_df, production_df, shipments_df,
                           goods_in, moved_to_prod, inbound_from_prod, shipments_out,
                           report, output_csv, written>>
       ELSE Raise

load_shipments_consolidated ==
    /\ pc = "load_shipments_consolidated"
    /\ IF Readable(SHIPMENTS_CONSOLIDATED_CSV)
       THEN /\ shipments_df' =
                 Project(ReadTable(SHIPMENTS_CONSOLIDATED_CSV), {COL_SKU_PROD, COL_QTY_PACKED_SHIP})
            /\ pc' = "agg_goods_in"
            /\ UNCHANGED <<files, fault, inbound_order_df, production_df, inbound_from_prod_df,
                           goods_in, moved_to_prod, inbound_from_prod, shipments_out,
                           report, output_csv, written>>
       ELSE Raise

agg_goods_in ==
    /\ pc = "agg_goods_in"
    /\ IF CanGroup(inbound_order_df, COL_SKU_INBOUND, COL_QTY_RECEIVED)
       THEN /\ goods_in' =
                 GroupBySum(inbound_order_df, COL_SKU_INBOUND, COL_QTY_RECEIVED, "Goods In")
            /\ pc' = "agg_moved_to_production"
            /\ UNCHANGED <<files, fault, inbound_order_df, production_df, inbound_from_prod_df,
                           shipments_df, moved_to_prod, inbound_from_prod, shipments_out,
                           report, output_csv, written>>
       ELSE Raise

agg_moved_to_production ==
    /\ pc = "agg_moved_to_production"
    /\ IF CanGroup(production_df, COL_SKU_PROD, COL_QTY_PRODUCED)
       THEN /\ moved_to_prod' =
                 GroupBySum(production_df, COL_SKU_PROD, COL_QTY_PRODUCED, "Moved to Production")
            /\ pc' = "agg_inbound_from_production"
            /\ UNCHANGED <<files, fault, inbound_order_df, production_df, inbound_from_prod_df,
                           shipments_df, goods_in, inbound_from_prod, shipments_out,
                           report, output_csv, written>>
       ELSE Raise

agg_inbound_from_production ==
    /\ pc = "agg_inbound_from_production"
    /\ IF CanGroup(inbound_from_prod_df, COL_SKU_PROD, COL_QTY_PACKED_INBOUND)
       THEN /\ inbound_from_prod' =
                 GroupBySum(inbound_from_prod_df, COL_SKU_PROD, COL_QTY_PACKED_INBOUND,
                            "Inbound from Production")
            /\ pc' = "agg_shipments_out"
            /\ UNCHANGED <<files, fault, inbound_order_df, production_df, inbound_from_prod_df,
                           shipments_df, goods_in, moved_to_prod, shipments_out,
                           report, output_csv, written>>
       ELSE Raise

agg_shipments_out ==
    /\ pc = "agg_shipments_out"
    /\ IF CanGroup(shipments_df, COL_SKU_PROD, COL_QTY_PACKED_SHIP)
       THEN /\ shipments_out' =
                 GroupBySum(shipments_df, COL_SKU_PROD, COL_QTY_PACKED_SHIP, "Shipments Out")
            /\ pc' = "merge"
            /\ UNCHANGED <<files, fault, inbound_order_df, production_df, inbound_from_prod_df,
                           shipments_df, goods_in, moved_to_prod, inbound_from_prod,
                           report, output_csv, written>>
       ELSE Raise

\* build_report, the chain of outer joins.
merge ==
    /\ pc = "merge"
    /\ \E lexicographic \in BOOLEAN : report' = MergeChain(lexicographic)
    /\ pc' = "fillna"
    /\ UNCHANGED <<files, fault, inbound_order_df, production_df, inbound_from_prod_df,
                   shipments_df, goods_in, moved_to_prod, inbound_from_prod,
                   shipments_out, output_csv, written>>

\* build_report, the zero-fill loop.
fillna ==
    /\ pc = "fillna"
    /\ report' = FillNa(report)
    /\ pc' = "derive"
    /\ UNCHANGED <<files, fault, inbound_order_df, production_df, inbound_from_prod_df,
                   shipments_df, goods_in, moved_to_prod, inbound_from_prod,
                   shipments_out, output_csv, written>>

\* build_report, the derived columns and the column order; build_report returns.
derive ==
    /\ pc = "derive"
    /\ IF CanDerive(report)
       THEN /\ report' = Derive(report)
            /\ pc' = "sort_values"
            /\ UNCHANGED <<files, fault, inbound_order_df, production_df,
                           inbound_from_prod_df, shipments_df, goods_in, moved_to_prod,
                           inbound_from_prod, shipments_out, output_csv, written>>
       ELSE Raise

\* main: report.sort_values(by=["SKU"], inplace=True, kind="stable")
sort_values ==
    /\ pc = "sort_values"
    /\ report' = [report EXCEPT !.rows = SortValues(report.rows)]
    /\ pc' = "to_csv"
    /\ UNCHANGED <<files, fault, inbound_order_df, production_df, inbound_from_prod_df,
                   shipments_df, goods_in, moved_to_prod, inbound_from_prod,
                   shipments_out, output_csv, written>>

\* main: report.to_csv(...)
to_csv ==
    /\ pc = "to_csv"
    /\ output_csv' = report
    /\ written' = TRUE
    /\ pc' = "done"
    /\ UNCHANGED <<files, fault, inbound_order_df, production_df, inbound_from_prod_df,
                   shipments_df, goods_in, moved_to_prod, inbound_from_prod,
                   shipments_out, report>>

Next ==
    \/ load_inbound_order
    \/ load_production_consolidated
    \/ load_inbound_from_production
    \/ load_shipments_consolidated
    \/ agg_goods_in
    \/ agg_moved_to_production
    \/ agg_inbound_from_production
    \/ agg_shipments_out
    \/ merge
    \/ fillna
    \/ derive
    \/ sort_values
    \/ to_csv

Spec == Init /\ [][Next]_vars

\* ------------------------------------------------------------ vocabulary
\* build_report has returned its report.
Built == pc \in {"sort_values", "to_csv", "done"}

\* The aggregate each metric column comes from, and the tables behind it.
AggregateOf(m) ==
    CASE m = "Goods In" -> goods_in
      [] m = "Moved to Production" -> moved_to_prod
      [] m = "Inbound from Production" -> inbound_from_prod
      [] m = "Shipments Out" -> shipments_out

SourceTables(m) ==
    CASE m = "Goods In" -> <<INBOUND_ORDER_SHEET>>
      [] m = "Moved to Production" -> <<PRODUCTION_CONSOLIDATED_CSV>>
      [] m = "Inbound from Production" -> INBOUND_FROM_PROD_SHEETS
      [] m = "Shipments Out" -> <<SHIPMENTS_CONSOLIDATED_CSV>>

Skus(df) == {df.rows[i]["SKU"] : i \in 1..Len(df.rows)}

\* The value aggregate m holds for sku, 0 when sku is not in it.
AggValue(m, sku) ==
    LET a == AggregateOf(m)
        hits == {i \in 1..Len(a.rows) : a.rows[i]["SKU"] = sku}
    IN IF hits = {} THEN 0 ELSE Val(a.rows[CHOOSE i \in hits : TRUE][m])

\* Sum of a report column, NA skipped.
ColumnSum(df, m) ==
    SeqSum([i \in 1..Len(df.rows) |-> IF IsNA(df.rows[i][m]) THEN 0 ELSE Val(df.rows[i][m])])

HasQtyColumn(t) == ~(fault.kind = "no_qty_column" /\ fault.table = t)
HasKeyColumn(t) == ~(fault.kind = "no_key_column" /\ fault.table = t)

\* Sum of the raw quantity column of table t as stored in its file.
RawTableSum(t) ==
    IF HasQtyColumn(t)
    THEN SeqSum([i \in 1..Len(files[t]) |->
                    IF IsNA(files[t][i].qty) THEN 0 ELSE Val(files[t][i].qty)])
    ELSE 0

RawSum(m) == SeqSum([i \in 1..Len(SourceTables(m)) |-> RawTableSum(SourceTables(m)[i])])

\* The rows of table t whose key is missing, and the sum of their quantities.
NullKeyed(t, i) == ~HasKeyColumn(t) \/ IsNA(files[t][i].sku)

NullKeyTableSum(t) ==
    SeqSum([i \in 1..Len(files[t]) |->
              IF NullKeyed(t, i) /\ HasQtyColumn(t) /\ ~IsNA(files[t][i].qty)
              THEN Val(files[t][i].qty) ELSE 0])

NullKeySum(m) ==
    SeqSum([i \in 1..Len(SourceTables(m)) |-> NullKeyTableSum(SourceTables(m)[i])])

HasNullKeyed(m) ==
    \E i \in 1..Len(SourceTables(m)) :
        \E j \in 1..Len(files[SourceTables(m)[i]]) : NullKeyed(SourceTables(m)[i], j)

SourceEmpty(m) ==
    \A i \in 1..Len(SourceTables(m)) : files[SourceTables(m)[i]] = <<>>

Count(x, s) == Cardinality({i \in 1..Len(s) : s[i] = x})

IsPermutation(s, t) ==
    /\ Len(s) = Len(t)
    /\ \A i \in 1..Len(s) : Count(s[i], s) = Count(s[i], t)

SortedBySku(rows) ==
    \A i \in 1..Len(rows) : \A j \in 1..Len(rows) :
        i < j => /\ ~IsNA(rows[i]["SKU"]) \/ IsNA(rows[j]["SKU"])
                 /\ (~IsNA(rows[i]["SKU"]) /\ ~IsNA(rows[j]["SKU"])
                        => Val(rows[i]["SKU"]) <= Val(rows[j]["SKU"]))

\* ------------------------------------------------------------------ claims
\* C1: the report build_report returns has exactly one row per SKU of the
\* union of the four aggregates: no SKU twice, none dropped, none invented.
C1_OneRowPerSku ==
    Built =>
        /\ \A i \in 1..Len(report.rows) : \A j \in 1..Len(report.rows) :
              i # j => report.rows[i]["SKU"] # report.rows[j]["SKU"]
        /\ Skus(report) =
              Skus(goods_in) \cup Skus(moved_to_prod) \cup Skus(inbound_from_prod)
                 \cup Skus(shipments_out)

\* A report of several SKUs, one known only to the first aggregate of the
\* chain and one known only to the last.
C1_Witness ==
    /\ Built
    /\ Len(report.rows) > 1
    /\ NA \notin Skus(report)
    /\ Skus(goods_in) \ (Skus(moved_to_prod) \cup Skus(inbound_from_prod)
                            \cup Skus(shipments_out)) # {}
    /\ Skus(shipments_out) \ (Skus(goods_in) \cup Skus(moved_to_prod)
                                 \cup Skus(inbound_from_prod)) # {}

\* C2: after build_report every metric cell of every row is a number, and it
\* is 0 where the row's SKU is absent from the metric's aggregate.
C2_MetricsZeroFilled ==
    Built =>
        \A i \in 1..Len(report.rows) : \A k \in 1..Len(MetricCols) :
            LET m == MetricCols[k]
                r == report.rows[i]
            IN /\ HasCol(report, m)
               /\ ~IsNA(r[m])
               /\ r["SKU"] \notin Skus(AggregateOf(m)) => r[m] = Num(0)

\* A SKU that occurs only in the shipments: 0, 0, 0 and the shipped quantity.
C2_Witness ==
    /\ Built
    /\ \E i \in 1..Len(report.rows) :
          LET r == report.rows[i]
          IN /\ ~IsNA(r["SKU"])
             /\ r["SKU"] \notin Skus(goods_in) \cup Skus(moved_to_prod)
                                  \cup Skus(inbound_from_prod)
             /\ r["Goods In"] = Num(0)
             /\ r["Moved to Production"] = Num(0)
             /\ r["Inbound from Production"] = Num(0)
             /\ r["Shipments Out"] = Num(MaxQty)

\* C3: each metric column of the report sums to the sum of the raw quantity
\* column of its source; for Inbound from Production the source is both
\* sheets, every row of both counted.
C3_MassPreserved ==
    Built =>
        \A k \in 1..Len(MetricCols) :
            ColumnSum(report, MetricCols[k]) = RawSum(MetricCols[k])

\* Both sheets carry the same SKU with a quantity, and the report adds them.
C3_Witness ==
    /\ Built
    /\ \E a \in 1..Len(files[SHEET_DK]) : \E b \in 1..Len(files[SHEET_DE]) :
          /\ files[SHEET_DK][a].sku = files[SHEET_DE][b].sku
          /\ ~IsNA(files[SHEET_DK][a].sku)
          /\ ~IsNA(files[SHEET_DK][a].qty)
          /\ ~IsNA(files[SHEET_DE][b].qty)
          /\ ColumnSum(report, "Inbound from Production")
                = Val(files[SHEET_DK][a].qty) + Val(files[SHEET_DE][b].qty)

\* C4: In Production is a number in every row, equal to the SKU's Moved to
\* Production minus its Inbound from Production, either taken as 0 when the
\* SKU is absent from that aggregate.
C4_InProduction ==
    Built =>
        \A i \in 1..Len(report.rows) :
            LET r == report.rows[i]
            IN /\ ~IsNA(r["In Production"])
               /\ r["In Production"] =
                     CellSub(r["Moved to Production"], r["Inbound from Production"])
               /\ Val(r["In Production"]) =
                     AggValue("Moved to Production", r["SKU"])
                        - AggValue("Inbound from Production", r["SKU"])

\* A SKU that came back from production without having been moved there:
\* In Production is negative.
C4_Witness ==
    /\ Built
    /\ \E i \in 1..Len(report.rows) :
          /\ report.rows[i]["SKU"] \notin Skus(moved_to_prod)
          /\ report.rows[i]["SKU"] \in Skus(inbound_from_prod)
          /\ report.rows[i]["In Production"] = Num(0 - MaxQty)

\* C5: Inventory ULTIMO is a number in every row, equal to Goods In plus
\* Inbound from Production minus Shipments Out of the SKU (0 where absent),
\* whatever Moved to Production is; a negative balance does not stop the run.
C5_InventoryUltimo ==
    Built =>
        \A i \in 1..Len(report.rows) :
            LET r == report.rows[i]
            IN /\ ~IsNA(r["Inventory ULTIMO"])
               /\ r["Inventory ULTIMO"] =
                     CellSub(CellAdd(r["Goods In"], r["Inbound from Production"]),
                             r["Shipments Out"])
               /\ Val(r["Inventory ULTIMO"]) =
                     AggValue("Goods In", r["SKU"])
                        + AggValue("Inbound from Production", r["SKU"])
                        - AggValue("Shipments Out", r["SKU"])

\* A run that ended normally with a negative balance for a SKU that was also
\* moved to production.
C5_Witness ==
    /\ pc = "done"
    /\ \E i \in 1..Len(output_csv.rows) :
          /\ output_csv.rows[i]["Inventory ULTIMO"] = Num(0 - MaxQty)
          /\ output_csv.rows[i]["Moved to Production"] # Num(0)

\* C6: a table that lacks its key or its quantity column does not make the
\* run fail.
C6_MissingColumnNonFatal ==
    fault.kind \in {"no_key_column", "no_qty_column"} => pc # "aborted"

\* C7: with an unreadable table the run never gets past the loads and the
\* output file is never written; the file is written only by a run that went
\* through every step, and it then holds the sorted report.
C7_NoPartialReport ==
    /\ fault.kind = "unreadable" =>
          /\ ~written
          /\ output_csv = EmptyFrame
          /\ pc \in {"load_inbound_order", "load_production_consolidated",
                     "load_inbound_from_production", "load_shipments_consolidated",
                     "aborted"}
    /\ written =>
          /\ pc = "done"
          /\ fault.kind # "unreadable"
          /\ output_csv = report
          /\ \A k \in 1..Len(MetricCols) : AggregateOf(MetricCols[k]) # EmptyFrame

\* The second sheet of the inbound-from-production workbook is unreadable:
\* the run stopped and wrote nothing.
C7_Witness ==
    /\ fault = [kind |-> "unreadable", table |-> SHEET_DE]
    /\ pc = "aborted"
    /\ ~written
    /\ inbound_order_df # EmptyFrame

\* C8: the rows written are in ascending order of SKU (a missing SKU last),
\* and the sort step only permutes the rows build_report returned.
C8_SortedOutput ==
    /\ [](written => SortedBySku(output_csv.rows))
    /\ [][pc = "sort_values" =>
            /\ IsPermutation(report.rows, report'.rows)
            /\ report'.columns = report.columns
            /\ SortedBySku(report'.rows)]_vars

\* Written rows whose first SKU is unknown to the first aggregate of the
\* chain while the second is known to it: joined in order of appearance, the
\* rows came out of the joins the other way round.
C8_Witness ==
    /\ written
    /\ Len(output_csv.rows) > 1
    /\ output_csv.rows[1]["SKU"] \notin Skus(goods_in)
    /\ output_csv.rows[Len(output_csv.rows)]["SKU"] \in Skus(goods_in)
    /\ ~IsNA(output_csv.rows[Len(output_csv.rows)]["SKU"])

\* C9: rows with a missing key are kept: every aggregate has at most one row
\* with a missing SKU, and the report has exactly one such row when some
\* source has such rows (none otherwise), carrying for each metric the sum of
\* the quantities of the source's rows with a missing key.
C9_NullKeysKept ==
    Built =>
        LET nulls == {i \in 1..Len(report.rows) : IsNA(report.rows[i]["SKU"])}
            some == \E k \in 1..Len(MetricCols) : HasNullKeyed(MetricCols[k])
        IN /\ Cardinality(nulls) = IF some THEN 1 ELSE 0
           /\ \A k \in 1..Len(MetricCols) :
                 /\ (NA \in Skus(AggregateOf(MetricCols[k]))) = HasNullKeyed(MetricCols[k])
                 /\ \A i \in nulls :
                       report.rows[i][MetricCols[k]] = Num(NullKeySum(MetricCols[k]))

\* Rows with a missing key in two sources, one row for them in the report.
C9_Witness ==
    /\ Built
    /\ HasNullKeyed("Goods In")
    /\ HasNullKeyed("Shipments Out")
    /\ NullKeySum("Goods In") = MaxQty
    /\ NullKeySum("Shipments Out") = MaxQty
    /\ Cardinality({i \in 1..Len(report.rows) : IsNA(report.rows[i]["SKU"])}) = 1

\* C10: with well-formed files the run never fails, empty tables included;
\* an empty source gives an empty aggregate with the columns (SKU, metric),
\* the metric column is in the report with 0 in every row, and four empty
\* sources give a report without rows.
C10_EmptySource ==
    /\ fault = NoFault => pc # "aborted"
    /\ (fault = NoFault /\ Built) =>
          /\ \A k \in 1..Len(MetricCols) :
                SourceEmpty(MetricCols[k]) =>
                    /\ AggregateOf(MetricCols[k]) =
                          [columns |-> <<"SKU", MetricCols[k]>>, rows |-> <<>>]
                    /\ HasCol(report, MetricCols[k])
                    /\ \A i \in 1..Len(report.rows) :
                          report.rows[i][MetricCols[k]] = Num(0)
          /\ (\A k \in 1..Len(MetricCols) : SourceEmpty(MetricCols[k]))
                => report.rows = <<>>

\* The inbound order sheet is empty and the other sources fill the report.
C10_Witness ==
    /\ pc = "done"
    /\ fault = NoFault
    /\ SourceEmpty("Goods In")
    /\ Len(output_csv.rows) > 1
    /\ \A i \in 1..Len(output_csv.rows) : output_csv.rows[i]["Goods In"] = Num(0)

====
